---- MODULE Spec2Model ----
(***************************************************************************)
(* EPFImporter: the feed parser (EPFParser.Parser) and the ingest          *)
(* orchestrator (EPFIngester.Ingester).                                    *)
(*                                                                         *)
(* Conventions.  A string is a sequence of tokens (single characters for   *)
(* data fields, whole words for column and type names).  Python's None is  *)
(* the one-token string Null.  Indexes are 1-based here and 0-based in the *)
(* source: column index i of the source is i+1 here.  A record number (a   *)
(* count of records read) is the same number in both.                      *)
(***************************************************************************)
EXTENDS Integers, Sequences, FiniteSets, TLC

VARIABLES
    feed,              \* the decompressed stream after the tar header: a sequence of lines
    dialect,           \* Ingester.dbType
    recordsExpected,   \* Parser.recordsExpected (from the file size)
    skipKeyViolators,  \* the skipKeyViolators argument of the run
    parser,            \* the Parser object's fields
    ret,               \* result of the last Parser call made directly by a caller
    ing,               \* the Ingester's job fields
    statusDict,        \* Ingester.statusDict
    now,               \* the wall clock in seconds; every datetime.now() reads a later time
    db,                \* the store's committed catalog: table name -> table
    tx,                \* the catalog as the cutover connection sees it
    txAborted,         \* that connection's transaction is in the failed state
    op,                \* the top-level operation in progress
    pc,                \* its position
    loc,               \* locals of the operation in progress
    hist,              \* what a test harness records about the run
    runs               \* processes started so far

vars == <<feed, dialect, recordsExpected, skipKeyViolators, parser, ret, ing,
          statusDict, now, db, tx, txAborted, op, pc, loc, hist, runs>>

(***************************************************************************)
(* Bounds of the model.                                                    *)
(***************************************************************************)
\* most data records in a feed of the ingest specification
MaxRecs == 3
\* records per batch: nextRecords(maxNum=10000) of _populateTable, scaled down
MaxNum == 2
\* processes (Ingester constructions) in one behaviour
MaxRuns == 2
\* most data records in a feed of the decoding specification
MaxParseRecs == 2
\* most extra comment lines after the three tagged declarations
MaxLegal == 8

(***************************************************************************)
(* Strings.                                                                *)
(***************************************************************************)
Null == <<"NULL">>
Empty == <<>>
Digits == {"0", "1", "2", "3", "4", "5", "6", "7", "8", "9"}

DigitVal(c) ==
    CASE c = "0" -> 0 [] c = "1" -> 1 [] c = "2" -> 2 [] c = "3" -> 3 [] c = "4" -> 4
      [] c = "5" -> 5 [] c = "6" -> 6 [] c = "7" -> 7 [] c = "8" -> 8 [] c = "9" -> 9

IsSpace(c) == c \in {" ", "\n"}

RECURSIVE LStrip(_)
LStrip(s) == IF s # <<>> /\ IsSpace(Head(s)) THEN LStrip(Tail(s)) ELSE s

RECURSIVE RStrip(_)
RStrip(s) == IF s # <<>> /\ IsSpace(s[Len(s)]) THEN RStrip(SubSeq(s, 1, Len(s) - 1)) ELSE s

Strip(s) == RStrip(LStrip(s))

Min(a, b) == IF a < b THEN a ELSE b

Prefix(s, n) == SubSeq(s, 1, IF Len(s) < n THEN Len(s) ELSE n)

Range(s) == {s[i] : i \in 1..Len(s)}

IndexOf(s, x) == CHOOSE i \in 1..Len(s) : s[i] = x /\ \A j \in 1..(i - 1) : s[j] # x

(***************************************************************************)
(* The stream.  A line is [pfx, fields, delim]: pfx is how its text begins *)
(* (a comment marker, a header tag, a zero byte of the tar padding, or     *)
(* nothing), fields its text split on the field delimiter, delim whether   *)
(* it ends with the record delimiter.                                      *)
(***************************************************************************)
commentChar == "#"
primStart == "#primaryKey:"
dtStart == "#dbTypes:"
exStart == "#exportMode:"
ZeroFill == "NUL"

StartsWith(pfx, req) ==
    \/ req = ""
    \/ pfx = req
    \/ req = commentChar /\ pfx \in {primStart, dtStart, exStart}

\* what is left of a line's beginning once the prefix req is taken off
Residue(pfx, req) ==
    IF pfx = req THEN <<>>
    ELSE IF req = commentChar /\ pfx = primStart THEN <<"primaryKey:">>
    ELSE IF req = commentChar /\ pfx = dtStart THEN <<"dbTypes:">>
    ELSE IF req = commentChar /\ pfx = exStart THEN <<"exportMode:">>
    ELSE IF pfx = "" THEN <<>>
    ELSE <<pfx>>

\* the text of one line as fields; a line that does not end with the record
\* delimiter keeps its newline
LineFields(ln) ==
    IF ln.delim THEN ln.fields
    ELSE [ln.fields EXCEPT ![Len(ln.fields)] = @ \o <<"\n">>]

JoinFields(a, b) ==
    IF a = <<>> THEN b
    ELSE SubSeq(a, 1, Len(a) - 1) \o <<a[Len(a)] \o b[1]>> \o Tail(b)

RECURSIVE RowFields(_)
RowFields(row) ==
    IF row = <<>> THEN <<>>
    ELSE JoinFields(RowFields(SubSeq(row, 1, Len(row) - 1)), LineFields(row[Len(row)]))

NoRow == <<>>

RECURSIVE ReadLines(_, _, _, _, _)
ReadLines(f, p, lst, isFirstLine, ignoreComments) ==
    IF p > Len(f) THEN [lst |-> lst, pos |-> p]
    ELSE LET ln == f[p] IN
        IF ln.pfx = ZeroFill THEN [lst |-> lst, pos |-> p + 1]
        ELSE IF StartsWith(ln.pfx, commentChar) /\ isFirstLine /\ ignoreComments
            THEN ReadLines(f, p + 1, lst, isFirstLine, ignoreComments)
        ELSE IF ln.delim THEN [lst |-> Append(lst, ln), pos |-> p + 1]
        ELSE ReadLines(f, p + 1, Append(lst, ln), FALSE, ignoreComments)

\* Parser.nextRowString: the row (its lines) or NoRow, and the new position
nextRowString(f, p, ignoreComments) ==
    LET r == ReadLines(f, p, <<>>, TRUE, ignoreComments)
    IN [row |-> r.lst, pos |-> r.pos]

\* Parser.splitRow
splitRow(row, requiredPrefix) ==
    IF requiredPrefix # "" /\ ~StartsWith(row[1].pfx, requiredPrefix)
    THEN [err |-> "SubstringNotFoundException", val |-> <<>>]
    ELSE LET fs == RowFields(row)
         IN [err |-> "",
             val |-> [fs EXCEPT ![1] = Residue(row[1].pfx, requiredPrefix) \o @]]

(***************************************************************************)
(* Parser.__init__ : header extraction.                                    *)
(***************************************************************************)
\* the rows read ahead after the column-name row: range(10)
HeaderLookahead == 10

numberTypes == {<<"INTEGER">>, <<"INT">>, <<"BIGINT">>, <<"TINYINT">>}
dateTypes == {<<"DATE">>, <<"DATETIME">>, <<"TIME">>, <<"TIMESTAMP">>}

\* the typeMap argument the Ingester passes for its dialect
dataTypeMap(dia, t) ==
    IF dia = "postgresql" THEN
        (IF t \in {<<"VARCHAR(1000)">>, <<"VARCHAR(4000)">>, <<"LONGTEXT">>} THEN <<"TEXT">>
         ELSE IF t = <<"CLOB">> THEN <<"LONGTEXT">>
         ELSE IF t = <<"DATETIME">> THEN <<"TIMESTAMP">>
         ELSE t)
    ELSE (IF t = <<"CLOB">> THEN <<"LONGTEXT">> ELSE t)

\* one step of fixupDataTypes; a column name is its words, a suffix or prefix
\* the code tests for ("_date", "_id", "is_") being a word of its own
FixType(column, dbType) ==
    IF column = <<"export", "_date">> THEN <<"BIGINT">>
    ELSE IF column # <<>> /\ column[Len(column)] = "_date" THEN <<"DATETIME">>
    ELSE IF column # <<>> /\ column[Len(column)] = "_id"
            /\ dbType \notin {<<"INTEGER">>, <<"BIGINT">>} THEN <<"BIGINT">>
    ELSE IF column # <<>> /\ column[1] = "is_" THEN <<"BOOLEAN">>
    ELSE dbType

fixupDataTypes(columnNames, dataTypes) ==
    [i \in 1..Len(dataTypes) |->
        IF i <= Len(columnNames) THEN FixType(columnNames[i], dataTypes[i]) ELSE dataTypes[i]]

\* "Grab the next 6 lines": HeaderLookahead calls of nextRowString(ignoreComments=False),
\* None results dropped
RECURSIVE ReadFirstRows(_, _, _, _)
ReadFirstRows(f, p, n, rows) ==
    IF n = 0 THEN [rows |-> rows, pos |-> p]
    ELSE LET r == nextRowString(f, p, FALSE)
         IN ReadFirstRows(f, r.pos, n - 1,
                          IF r.row = NoRow THEN rows ELSE Append(rows, r.row))

\* "Loop through the rows, extracting the header info"
RECURSIVE ScanHeader(_, _, _)
ScanHeader(rows, k, h) ==
    IF k > Len(rows) THEN h
    ELSE LET aRow == rows[k] IN
        IF StartsWith(aRow[1].pfx, primStart) THEN
            LET v == splitRow(aRow, primStart).val
            IN ScanHeader(rows, k + 1,
                          [h EXCEPT !.primaryKey = IF v = <<Empty>> THEN <<>> ELSE v])
        ELSE IF StartsWith(aRow[1].pfx, dtStart) THEN
            LET dts == splitRow(aRow, dtStart).val
            IN ScanHeader(rows, k + 1,
                          [h EXCEPT !.dataTypes =
                              [i \in 1..Len(dts) |->
                                  IF dts[i] = <<"DECIMAL(9,3)">> THEN <<"DECIMAL(11,3)">>
                                  ELSE dts[i]]])
        ELSE IF StartsWith(aRow[1].pfx, exStart) THEN
            ScanHeader(rows, k + 1, [h EXCEPT !.exportMode = splitRow(aRow, exStart).val[1]])
        ELSE ScanHeader(rows, k + 1, h)

NoParser ==
    [err |-> "unbuilt", pos |-> 1, latestRecordNum |-> 0, columnNames |-> <<>>,
     primaryKey |-> <<>>, primaryKeyIndexes |-> <<>>, dataTypes |-> <<>>,
     exportMode |-> Null, dateColumns |-> <<>>, numberColumns |-> <<>>,
     closed |-> FALSE]

\* Parser.__init__ on the stream f for the dialect dia: the new object's fields.
\* err names the exception when construction raises.
ParserInit(f, dia) ==
    LET line1 == nextRowString(f, 1, FALSE) IN
    IF line1.row = NoRow THEN [NoParser EXCEPT !.err = "AttributeError", !.pos = line1.pos]
    ELSE LET cols == splitRow(line1.row, commentChar) IN
    IF cols.err # "" THEN [NoParser EXCEPT !.err = cols.err, !.pos = line1.pos]
    ELSE LET first == ReadFirstRows(f, line1.pos, HeaderLookahead, <<>>)
             h == ScanHeader(first.rows, 1,
                             [primaryKey |-> <<>>, dataTypes |-> <<>>, exportMode |-> Null])
             fixed == fixupDataTypes(cols.val, h.dataTypes)
             base == [NoParser EXCEPT !.pos = first.pos, !.columnNames = cols.val,
                                      !.primaryKey = h.primaryKey,
                                      !.exportMode = h.exportMode]
         IN IF \E i \in 1..Len(h.primaryKey) : h.primaryKey[i] \notin Range(cols.val)
            THEN [base EXCEPT !.err = "ValueError", !.dataTypes = fixed]
            ELSE [base EXCEPT
                    !.err = "",
                    !.primaryKeyIndexes =
                        [i \in 1..Len(h.primaryKey) |-> IndexOf(cols.val, h.primaryKey[i])],
                    !.dataTypes = [j \in 1..Len(fixed) |-> dataTypeMap(dia, fixed[j])],
                    !.dateColumns =
                        SelectSeq([j \in 1..Len(fixed) |-> j], LAMBDA j : fixed[j] \in dateTypes),
                    !.numberColumns =
                        SelectSeq([j \in 1..Len(fixed) |-> j], LAMBDA j : fixed[j] \in numberTypes)]

(***************************************************************************)
(* Parser.nextRecord : per-record decoding.                                *)
(***************************************************************************)
\* datetime.date.today().year
CurrentYear == 2026

Truthy(v) == v # Null /\ v # Empty

\* int(s): defined on digits, surrounding white space allowed
IntOK(s) == Strip(s) # <<>> /\ \A i \in 1..Len(Strip(s)) : Strip(s)[i] \in Digits

RECURSIVE IntVal(_)
IntVal(s) ==
    LET t == Strip(s)
    IN IF Len(t) = 0 THEN 0
       ELSE 10 * IntVal(SubSeq(t, 1, Len(t) - 1)) + DigitVal(t[Len(t)])

Replace(s, a, b) == [i \in 1..Len(s) |-> IF s[i] = a THEN b ELSE s[i]]

\* the year digits a stripped date value starts with: 2, 1, or 0 when the
\* value has no short year
ShortYear(s) ==
    IF Len(s) > 3 /\ s[3] \in {" ", "-"} THEN 2
    ELSE IF Len(s) > 3 /\ s[2] \in {" ", "-"} THEN 1
    ELSE 0

\* "found a 2-digit year" / "found a 1-digit year": the century is put before
\* the value s, the last one if this one lies in the future
FixYear(s, w) ==
    LET pad == IF w = 2 THEN <<"2", "0">> ELSE <<"2", "0", "0">>
        old == IF w = 2 THEN <<"1", "9">> ELSE <<"1", "9", "9">>
    IN IF ~IntOK(Prefix(pad \o s, 4)) THEN [err |-> "ValueError", val |-> s]
       ELSE IF IntVal(Prefix(pad \o s, 4)) > CurrentYear THEN [err |-> "", val |-> old \o s]
       ELSE [err |-> "", val |-> pad \o s]

\* "if len(rec[j]) == 4"
PadYear(s) == IF Len(s) = 4 THEN s \o <<"-", "0", "1", "-", "0", "1">> ELSE s

\* "cut the timezone info"
CutZone(y) == [err |-> y.err, val |-> PadYear(Replace(Prefix(y.val, 19), "-", " "))]

\* the body of "for j in self.dateColumns" for one truthy value
NormDate(v) ==
    IF ShortYear(Strip(v)) = 0 THEN CutZone([err |-> "", val |-> Strip(v)])
    ELSE CutZone(FixYear(Strip(v), ShortYear(Strip(v))))

\* rec[j] = n.val, unless n is an error
SetField(rec, j, n) ==
    IF n.err # "" THEN [err |-> n.err, rec |-> rec]
    ELSE [err |-> "", rec |-> [rec EXCEPT ![j] = n.val]]

\* one pass of "for j in self.dateColumns"
DateStep(rec, j) ==
    IF j > Len(rec) THEN [err |-> "IndexError", rec |-> rec]
    ELSE IF Truthy(rec[j]) THEN SetField(rec, j, NormDate(rec[j]))
    ELSE [err |-> "", rec |-> rec]

\* "for j in self.dateColumns" from the k-th date column on; st is [err, rec]
RECURSIVE DateLoop(_, _, _)
DateLoop(st, cols, k) ==
    IF k > Len(cols) \/ st.err # "" THEN st
    ELSE DateLoop(DateStep(st.rec, cols[k]), cols, k + 1)

nonNumberSub(v) == SelectSeq(v, LAMBDA c : c \in Digits \cup {".", "-"})

\* the emptied field written back and the record kept
SkipIfEmptyKeeps(rec, j, v) == [err |-> "", rec |-> [rec EXCEPT ![j] = v]]

\* "if rec[j] == ''": the record is a lost cause (err "skip")
SkipIfEmpty(rec, j, v) ==
    IF v = Empty THEN [err |-> "skip", rec |-> rec]
    ELSE [err |-> "", rec |-> [rec EXCEPT ![j] = v]]

\* one pass of "for j in self.numberColumns"
NumberStep(rec, j) ==
    IF j > Len(rec) THEN [err |-> "IndexError", rec |-> rec]
    ELSE IF Truthy(rec[j]) /\ rec[j][1] \notin Digits
        THEN SkipIfEmpty(rec, j, nonNumberSub(rec[j]))
    ELSE [err |-> "", rec |-> rec]

\* "for j in self.numberColumns" from the k-th number column on; st is [err, rec]
RECURSIVE NumberLoop(_, _, _)
NumberLoop(st, cols, k) ==
    IF k > Len(cols) \/ st.err # "" THEN st
    ELSE NumberLoop(NumberStep(st.rec, cols[k]), cols, k + 1)

\* NullEmpty without the primary-key exemption
NullEmptyAll(rec, primaryKeyIndexes) ==
    [i \in 1..Len(rec) |-> IF rec[i] = Empty THEN Null ELSE rec[i]]

\* "replace empty strings with None"
NullEmpty(rec, primaryKeyIndexes) ==
    [i \in 1..Len(rec) |->
        IF rec[i] = Empty /\ i \notin Range(primaryKeyIndexes) THEN Null ELSE rec[i]]

\* the row string split, trimmed to the column count, nulled and massaged: the
\* body of "if (rowString)" up to the return; err "skip" asks for the next row
DecodeRow(row, ps) ==
    NumberLoop(
        DateLoop([err |-> "",
                  rec |-> NullEmpty(Prefix(splitRow(row, "").val, Len(ps.columnNames)),
                                    ps.primaryKeyIndexes)],
                 ps.dateColumns, 1),
        ps.numberColumns, 1)

\* Parser.nextRecord on stream f with parser fields ps: kind is "rec" (rec is the
\* row), "none" (None returned) or "error" (err names the exception); parser is
\* the object's fields afterwards.
RECURSIVE nextRecord(_, _)
RECURSIVE ReturnRecord(_, _, _)
RECURSIVE ReadRecord(_, _, _)

\* the end of nextRecord: the decoded row d is returned, raised, or skipped
ReturnRecord(f, ps1, d) ==
    IF d.err = "skip" THEN nextRecord(f, ps1)
    ELSE IF d.err # "" THEN [kind |-> "error", rec |-> <<>>, err |-> d.err, parser |-> ps1]
    ELSE [kind |-> "rec", rec |-> d.rec, err |-> "", parser |-> ps1]

\* the record counter running backwards
ReadRecordCountingDown(f, ps, r) ==
    IF r.row = NoRow
    THEN [kind |-> "none", rec |-> <<>>, err |-> "", parser |-> [ps EXCEPT !.pos = r.pos]]
    ELSE ReturnRecord(f, [ps EXCEPT !.pos = r.pos, !.latestRecordNum = @ - 1],
                      DecodeRow(r.row, ps))

\* nextRecord after rowString = self.nextRowString() gave r
ReadRecord(f, ps, r) ==
    IF r.row = NoRow
    THEN [kind |-> "none", rec |-> <<>>, err |-> "", parser |-> [ps EXCEPT !.pos = r.pos]]
    ELSE ReturnRecord(f, [ps EXCEPT !.pos = r.pos, !.latestRecordNum = @ + 1],
                      DecodeRow(r.row, ps))

nextRecord(f, ps) == ReadRecord(f, ps, nextRowString(f, ps.pos, TRUE))

\* Parser.nextRecords(maxNum): the records read (a falsy result ends the loop)
RECURSIVE nextRecords(_, _, _, _)
RECURSIVE AppendRecord(_, _, _, _)

\* the body of "for j in range(maxNum)" once nextRecord gave r
AppendRecord(f, maxNum, records, r) ==
    IF r.kind = "error" THEN [records |-> records, err |-> r.err, parser |-> r.parser]
    ELSE IF r.kind = "none" \/ r.rec = <<>>
        THEN [records |-> records, err |-> "", parser |-> r.parser]
    ELSE nextRecords(f, r.parser, maxNum - 1, Append(records, r.rec))

nextRecords(f, ps, maxNum, records) ==
    IF maxNum = 0 THEN [records |-> records, err |-> "", parser |-> ps]
    ELSE AppendRecord(f, maxNum, records, nextRecord(f, ps))

\* the while loop of advanceToNextRecord from line p on: the position it stops
\* at, and whether it stopped at a line holding the record delimiter (found) or
\* at the end of the stream
RECURSIVE AdvanceLines(_, _)
AdvanceLines(f, p) ==
    IF p > Len(f) THEN [pos |-> p, found |-> FALSE]
    ELSE IF StartsWith(f[p].pfx, commentChar) THEN AdvanceLines(f, p + 1)
    ELSE IF f[p].delim THEN [pos |-> p + 1, found |-> TRUE]
    ELSE AdvanceLines(f, p + 1)

\* Parser.advanceToNextRecord: the parser's fields afterwards
advanceToNextRecord(f, ps) ==
    LET r == AdvanceLines(f, ps.pos)
    IN [ps EXCEPT !.pos = r.pos,
                  !.latestRecordNum = IF r.found THEN @ + 1 ELSE @]

\* the early return taken for negative record numbers only
seekToRecordBelowZero(ps, recordNum) ==
    IF recordNum < 0 THEN [err |-> "", parser |-> ps]
    ELSE [err |-> "OSError", parser |-> ps]

\* Parser.seekToRecord(recordNum): the stream is a pipe (subprocess stdout), so
\* reading its seek position raises OSError; only recordNum <= 0 returns.
seekToRecord(ps, recordNum) ==
    IF recordNum <= 0 THEN [err |-> "", parser |-> ps]
    ELSE [err |-> "OSError", parser |-> ps]

(***************************************************************************)
(* Feeds.                                                                  *)
(***************************************************************************)
Line(pfx, fields) == [pfx |-> pfx, fields |-> fields, delim |-> TRUE]

RECURSIVE Repeat(_, _)
Repeat(x, n) == IF n = 0 THEN <<>> ELSE <<x>> \o Repeat(x, n - 1)

SeqsUpTo(S, n) == UNION {[1..k -> S] : k \in 0..n}

\* the header of a feed: the column-name row, the tagged declarations in tags,
\* and nLegal further comment rows
Header(cols, pk, types, mode, tags, nLegal) ==
    <<Line(commentChar, cols)>>
    \o (IF "pk" \in tags THEN <<Line(primStart, IF pk = <<>> THEN <<Empty>> ELSE pk)>> ELSE <<>>)
    \o (IF "dt" \in tags THEN <<Line(dtStart, types)>> ELSE <<>>)
    \o (IF "em" \in tags THEN <<Line(exStart, <<mode>>)>> ELSE <<>>)
    \o Repeat(Line(commentChar, <<<<"#legal">>>>), nLegal)

Trailer == <<Line(commentChar, <<<<"recordsWritten:">>>>)>>

DataLines(recs) == [i \in 1..Len(recs) |-> Line("", recs[i])]

AllTags == {"pk", "dt", "em"}

(***************************************************************************)
(* The Ingester object.                                                    *)
(***************************************************************************)
NoTime == <<>>
Time(n) == <<n>>

\* str(t) if t else None
StrOrNone(t) == IF t = NoTime THEN Null ELSE <<"str", t[1]>>

\* the fields __init__ assigns; lastTimeCheck is the clock at construction
NewIng ==
    [lastRecordIngested |-> -1, startTime |-> NoTime, endTime |-> NoTime,
     abortTime |-> NoTime, didAbort |-> FALSE, lastRecordCheck |-> 0,
     lastTimeCheck |-> NoTime]

\* the defaults of _checkProgress: recordGap, and timeGap in seconds
recordGap == 5000
timeGap == 120

\* progress reported as soon as either gap is reached
checkProgressEither(g, t) ==
    IF g.lastRecordIngested - g.lastRecordCheck >= recordGap
       \/ t - g.lastTimeCheck[1] >= timeGap
    THEN [ing |-> [g EXCEPT !.lastTimeCheck = Time(t),
                            !.lastRecordCheck = g.lastRecordIngested],
          value |-> <<g.lastRecordIngested>>]
    ELSE [ing |-> g, value |-> <<>>]

\* Ingester._checkProgress() when the clock reads t: the fields afterwards and
\* the value returned (<< >> for None)
checkProgress(g, t) ==
    IF g.lastRecordIngested - g.lastRecordCheck >= recordGap
       /\ t - g.lastTimeCheck[1] >= timeGap
    THEN [ing |-> [g EXCEPT !.lastTimeCheck = Time(t),
                            !.lastRecordCheck = g.lastRecordIngested],
          value |-> <<g.lastRecordIngested>>]
    ELSE [ing |-> g, value |-> <<>>]

\* "self.lastRecordIngested = self.parser.latestRecordNum" and
\* "recCheck = self._checkProgress()" at the end of a pass of _populateTable
batchIngested(g, last, t) == checkProgress([g EXCEPT !.lastRecordIngested = last], t)

\* Ingester.updateStatusDict: the dictionary written from the fields g
updateStatusDict(g) ==
    [lastRecordIngested |-> g.lastRecordIngested,
     startTime |-> StrOrNone(g.startTime),
     endTime |-> StrOrNone(g.endTime),
     abortTime |-> StrOrNone(g.abortTime),
     didAbort |-> g.didAbort]

NoRet == [kind |-> "unset", rec |-> <<>>, err |-> ""]
NoLoc == [tableName |-> "", resumeNum |-> 0, isIncremental |-> FALSE,
          sourceTable |-> "", revert |-> FALSE, renameFailed |-> FALSE, batches |-> 0,
          conns |-> <<>>, conn_idx |-> 1, populating |-> FALSE, viaIngest |-> FALSE]

\* the except clause of the operation o on a backend error at clock t:
\* the fields and the status dictionary afterwards, and the clock ticks used
onBackendError(o, g, sd, t) ==
    IF o = "resume" THEN [ing |-> g, statusDict |-> sd, ticks |-> 0]
    ELSE LET g2 == [g EXCEPT !.abortTime = Time(t + 1), !.didAbort = TRUE]
         IN [ing |-> g2, statusDict |-> updateStatusDict(g2), ticks |-> 1]

\* the statements of the operation o after its try block ("ingest completed")
onCompleted(o, g, sd, t) ==
    LET g2 == [g EXCEPT !.endTime = Time(t + 1)]
    IN [ing |-> g2,
        statusDict |-> IF o = "resume" THEN sd ELSE updateStatusDict(g2),
        ticks |-> 1]

(***************************************************************************)
(* The store.  A catalog maps a table name to a table: whether it exists,  *)
(* its column count, its primary-key columns (none: << >>), the name of    *)
(* its primary-key index and its rows.  A statement on a catalog yields    *)
(* the exception it raises ("" for none) and the catalog afterwards.       *)
(* Statements are atomic: one that raises changes nothing.  Rows written   *)
(* by a statement that returned are taken to stay written (a               *)
(* non-transactional MySQL engine; psycopg2's pooled sessions autocommit). *)
(***************************************************************************)
tableName == "t"
tmpTableName == tableName \o "_tmp"
incTableName == tableName \o "_inc"
unionTableName == tableName \o "_un"
OldName(name) == name \o "_old"
PkIndexName(name) == name \o "_pk"
TableNames == {tableName, tmpTableName, incTableName, unionTableName, OldName(tableName)}

NoTable == [exists |-> FALSE, ncols |-> 0, pk |-> <<>>, idx |-> "none", rows |-> <<>>]
EmptyCatalog == [n \in TableNames |-> NoTable]

Ok(c) == [err |-> "", cat |-> c]
Fail(e, c) == [err |-> e, cat |-> c]

\* the drop taking the live table along
DropTableAndLive(c, n) == Ok([c EXCEPT ![n] = NoTable, ![tableName] = NoTable])

\* DROP TABLE IF EXISTS n
DropTableIfExists(c, n) == Ok([c EXCEPT ![n] = NoTable])

\* CREATE TABLE n (...)
CreateTableStmt(c, n, ncols) ==
    IF c[n].exists THEN Fail("Error", c)
    ELSE Ok([c EXCEPT ![n] = [exists |-> TRUE, ncols |-> ncols, pk |-> <<>>,
                              idx |-> "none", rows |-> <<>>]])

KeyOf(row, pk) == [i \in 1..Len(pk) |-> row[pk[i]]]

HasDupKeys(rows, pk) ==
    \E i, j \in 1..Len(rows) : i < j /\ KeyOf(rows[i], pk) = KeyOf(rows[j], pk)

IndexExists(c, ix) == \E n \in TableNames : c[n].exists /\ c[n].idx = ix

\* ALTER TABLE n ADD CONSTRAINT [n_pk] PRIMARY KEY (pk)
AddPrimaryKey(c, n, pk, dia) ==
    LET ix == IF dia = "postgresql" THEN PkIndexName(n) ELSE "PRIMARY" IN
    IF ~c[n].exists \/ c[n].pk # <<>> THEN Fail("Error", c)
    ELSE IF \E i \in 1..Len(pk) : pk[i] > c[n].ncols THEN Fail("Error", c)
    ELSE IF dia = "postgresql" /\ IndexExists(c, ix) THEN Fail("Error", c)
    ELSE IF HasDupKeys(c[n].rows, pk) THEN Fail("IntegrityError", c)
    ELSE Ok([c EXCEPT ![n].pk = pk, ![n].idx = ix])

\* ALTER TABLE a RENAME [TO] b
RenameTable(c, a, b) ==
    IF ~c[a].exists \/ c[b].exists THEN Fail("Error", c)
    ELSE Ok([c EXCEPT ![b] = c[a], ![a] = NoTable])

\* ALTER INDEX ia RENAME TO ib
RenameIndex(c, ia, ib) ==
    IF ~IndexExists(c, ia) \/ IndexExists(c, ib) THEN Fail("Error", c)
    ELSE Ok([n \in TableNames |->
                IF c[n].exists /\ c[n].idx = ia THEN [c[n] EXCEPT !.idx = ib] ELSE c[n]])

\* conn.literal / cur.mogrify: a value as an SQL literal, and the store reading it
Literal(v) == IF v = Null THEN <<"NULL">> ELSE <<"'">> \o v \o <<"'">>
Unliteral(l) == IF l = <<"NULL">> THEN Null ELSE SubSeq(l, 2, Len(l) - 1)

\* the rows of a table after one multi-row statement adds new to rows:
\* conflict says a key was already taken (in the table or earlier in the statement)
RECURSIVE InsertSeq(_, _, _, _)
InsertSeq(rows, new, pk, command) ==
    IF new = <<>> THEN [rows |-> rows, conflict |-> FALSE]
    ELSE LET r == Head(new)
             clash == pk # <<>> /\ \E i \in 1..Len(rows) : KeyOf(rows[i], pk) = KeyOf(r, pk)
             kept == SelectSeq(rows, LAMBDA x : KeyOf(x, pk) # KeyOf(r, pk))
             next == IF ~clash THEN Append(rows, r)
                     ELSE IF command = "REPLACE" THEN Append(kept, r)
                     ELSE rows
             rest == InsertSeq(next, Tail(new), pk, command)
         IN [rows |-> rest.rows, conflict |-> rest.conflict \/ (clash /\ command = "INSERT")]

\* {INSERT|REPLACE} [IGNORE] INTO n (columns) VALUES (...), (...) [ON CONFLICT (pk) DO NOTHING]
\* command is "INSERT", "REPLACE" or "SKIP" (INSERT that passes over taken keys);
\* badSyntax says the statement text does not parse
InsertStmt(c, n, ncolsNamed, escaped, command, badSyntax) ==
    LET new == [i \in 1..Len(escaped) |->
                   [j \in 1..Len(escaped[i]) |-> Unliteral(escaped[i][j])]]
    IN IF badSyntax \/ ~c[n].exists \/ ncolsNamed > c[n].ncols
          \/ \E i \in 1..Len(new) : Len(new[i]) # ncolsNamed
       THEN Fail("Error", c)
       ELSE LET r == InsertSeq(c[n].rows, new, c[n].pk, command)
            IN IF r.conflict THEN Fail("IntegrityError", c)
               ELSE Ok([c EXCEPT ![n].rows = r.rows])

\* CREATE TABLE un [AS] [IGNORE] SELECT * FROM inc UNION ALL
\*   SELECT * FROM t WHERE 0 = (SELECT COUNT(*) FROM inc
\*                              WHERE t.export_date <= inc.export_date AND t.k = inc.k ...)
\* xd: the column index of export_date (0: no such column), pk: the key columns
CreateUnionStmt(c, un, inc, live, xd, pk) ==
    IF c[un].exists \/ ~c[inc].exists \/ ~c[live].exists \/ xd = 0 \/ pk = <<>>
       \/ c[inc].ncols # c[live].ncols
    THEN Fail("Error", c)
    ELSE LET pruned == SelectSeq(c[live].rows,
                         LAMBDA r : ~\E i \in 1..Len(c[inc].rows) :
                             /\ IntVal(r[xd]) <= IntVal(c[inc].rows[i][xd])
                             /\ KeyOf(r, pk) = KeyOf(c[inc].rows[i], pk))
         IN Ok([c EXCEPT ![un] = [exists |-> TRUE, ncols |-> c[inc].ncols, pk |-> <<>>,
                                  idx |-> "none", rows |-> c[inc].rows \o pruned]])

(***************************************************************************)
(* Ingester._escapeRecords                                                 *)
(***************************************************************************)
\* the loop over recordList: keys holds the markers seen so far
RECURSIVE escapeLoop(_, _, _, _)
escapeLoop(recordList, primaryKeyIndexes, keys, escapedRecords) ==
    IF recordList = <<>> THEN [err |-> "", val |-> escapedRecords]
    ELSE LET aRec == Head(recordList) IN
        IF \E i \in 1..Len(primaryKeyIndexes) : primaryKeyIndexes[i] > Len(aRec)
        THEN [err |-> "IndexError", val |-> escapedRecords]
        ELSE LET marker == KeyOf(aRec, primaryKeyIndexes) IN
            IF marker \in keys
            THEN escapeLoop(Tail(recordList), primaryKeyIndexes, keys, escapedRecords)
            ELSE escapeLoop(Tail(recordList), primaryKeyIndexes, keys \cup {marker},
                            Append(escapedRecords,
                                   [j \in 1..Len(aRec) |-> Literal(aRec[j])]))

escapeRecords(recordList, primaryKeyIndexes) ==
    escapeLoop(recordList, primaryKeyIndexes, {}, <<>>)

(***************************************************************************)
(* Ingester: the statements of each step, as operators on the store.       *)
(***************************************************************************)
\* tableExists answering yes whatever the catalog holds
tableExistsAlways(c, name) == TRUE

\* Ingester.tableExists(name): the catalog query finds the table
tableExists(c, name) == c[name].exists

\* the assertion left out
ColumnsFitAlways(tableColCount, fileColCount) == TRUE

\* "assert (tableColCount <= fileColCount)" of ingestIncremental
ColumnsFit(tableColCount, fileColCount) == tableColCount <= fileColCount

\* Ingester._applyPrimaryKeyConstraints(name)
applyPrimaryKeyConstraints(c, name, ps, dia) ==
    IF ps.primaryKey = <<>> THEN Ok(c)
    ELSE AddPrimaryKey(c, name, ps.primaryKeyIndexes, dia)

\* zip(columnNames, dataTypes): the columns of the CREATE TABLE
ZipLen(ps) == Min(Len(ps.columnNames), Len(ps.dataTypes))

\* Ingester._createTable(name): DROP TABLE IF EXISTS, CREATE TABLE, then the key
createTable(c, name, ps, dia) ==
    LET dropped == DropTableIfExists(c, name).cat
        created == IF ZipLen(ps) = 0 /\ dia = "mysql" THEN Fail("Error", dropped)
                   ELSE CreateTableStmt(dropped, name, ZipLen(ps))
    IN IF created.err # "" THEN created
       ELSE applyPrimaryKeyConstraints(created.cat, name, ps, dia)

\* commandString, ignoreString and conflictStr of _populateTable
InsertCommand(dia, isIncremental, skip) ==
    IF isIncremental /\ dia = "mysql" THEN "REPLACE"
    ELSE IF skip /\ ((~isIncremental /\ dia = "mysql") \/ dia = "postgresql") THEN "SKIP"
    ELSE "INSERT"

\* ON CONFLICT () DO NOTHING does not parse
BadConflictClause(dia, skip, ps) == dia = "postgresql" /\ skip /\ ps.primaryKey = <<>>

\* conns = [self.connect(async_=1) for _ in range(8)]
PoolSize == 8

\* a pooled session: idle, "sent" (its statement is with the store) or "done"
\* (the store's answer err waits to be polled); last is the record number the
\* statement's batch ends at
IdleConn == [state |-> "idle", stmt |-> <<>>, last |-> 0, err |-> ""]
NewPool == [i \in 1..PoolSize |-> IdleConn]

\* the statement handed to the session at hand with no poll
PollFromHere(conns, idx, n) == idx

\* "while True: state = conns[conn_idx].poll() ...": the session the loop stops
\* at, the first from idx on whose statement is not still running
RECURSIVE PollFrom(_, _, _)
PollFrom(conns, idx, n) ==
    IF n = 0 \/ conns[idx].state # "sent" THEN idx
    ELSE PollFrom(conns, (idx % PoolSize) + 1, n - 1)

\* the sessions closed without being waited for
DrainedUnwaited(conns) == TRUE

\* the drain waiting for a session it never polls to look unused again
DrainedWhenIdle(conns) == \A i \in DOMAIN conns : conns[i].state = "idle"

\* "for conn in conns: wait(conn)": no session's statement is still with the store
Drained(conns) == \A i \in DOMAIN conns : conns[i].state # "sent"

\* the store runs the batch statement built from the escaped records
StoreRuns(c, name, dia, isIncremental, skip, ps, escaped) ==
    InsertStmt(c, name, Len(ps.columnNames), escaped,
               InsertCommand(dia, isIncremental, skip),
               BadConflictClause(dia, skip, ps))

\* what one pass of the while loop of _populateTable came to: kind "end" (no
\* records), "other" (a non-backend exception), "fatal" (a backend error that is
\* re-raised), "next" (the batch was executed) or "submit" (the batch is for a
\* pooled session)
BatchResult(kind, r, escaped, cat, answer) ==
    [kind |-> kind, parser |-> r.parser, cat |-> cat, records |-> r.records,
     escaped |-> escaped, answer |-> answer]

\* every error the store answers is re-raised
BatchExecutedStrict(c, r, e, x) ==
    IF x.err # "" THEN BatchResult("fatal", r, e.val, c, x.err)
    ELSE BatchResult("next", r, e.val, x.cat, x.err)

\* cur.execute(exStr) answered x
BatchExecuted(c, r, e, x) ==
    IF x.err = "Error" THEN BatchResult("fatal", r, e.val, c, x.err)
    ELSE BatchResult("next", r, e.val, x.cat, x.err)

\* the statement is built from the escaped records e and executed
BatchEscaped(c, name, dia, isIncremental, skip, ps, r, e) ==
    IF e.err # "" THEN BatchResult("other", r, e.val, c, "")
    ELSE IF dia = "postgresql" THEN BatchResult("submit", r, e.val, c, "")
    ELSE BatchExecuted(c, r, e,
                       StoreRuns(c, name, dia, isIncremental, skip, ps, e.val))

\* the pass once self.parser.nextRecords(maxNum) gave r
BatchRead(c, name, dia, isIncremental, skip, ps, r) ==
    IF r.err # "" THEN BatchResult("other", r, <<>>, c, "")
    ELSE IF r.records = <<>> THEN BatchResult("end", r, <<>>, c, "")
    ELSE BatchEscaped(c, name, dia, isIncremental, skip, ps, r,
                      escapeRecords(r.records, ps.primaryKeyIndexes))

\* one pass of the while loop of _populateTable up to the poll of the pooled
\* sessions, with no fault injected
populateBatch(f, ps, c, name, dia, isIncremental, skip, maxNum) ==
    BatchRead(c, name, dia, isIncremental, skip, ps, nextRecords(f, ps, maxNum, <<>>))

\* the statements after the loop: ANALYZE name
analyzeTable(c, name) == IF c[name].exists THEN Ok(c) ELSE Fail("Error", c)

\* _createUnionTable, _dropTable(inc), _applyPrimaryKeyConstraints(un)
mergeTables(c, ps, dia) ==
    LET xd == IF <<"export", "_date">> \in Range(ps.columnNames)
              THEN IndexOf(ps.columnNames, <<"export", "_date">>) ELSE 0
        d == DropTableIfExists(c, unionTableName).cat
        u == CreateUnionStmt(d, unionTableName, incTableName, tableName, xd,
                             ps.primaryKeyIndexes)
    IN IF u.err # "" THEN u
       ELSE applyPrimaryKeyConstraints(DropTableIfExists(u.cat, incTableName).cat,
                                       unionTableName, ps, dia)

(***************************************************************************)
(* Ingester._renameAndDrop, statement group by statement group.  w is the  *)
(* cutover connection and the store: db the committed catalog (what any    *)
(* other session sees), tx the catalog this connection sees, aborted       *)
(* whether its transaction has failed, revert the local flag, err the      *)
(* exception leaving _renameAndDrop.  MySQL commits each statement;        *)
(* PostgreSQL commits at conn.commit(), refuses every statement of a       *)
(* failed transaction and rolls back when the connection is dropped.       *)
(***************************************************************************)
\* a statement's result r applied to w
Exec(w, r, dia) ==
    IF w.aborted THEN [w EXCEPT !.err = "Error"]
    ELSE IF r.err # "" THEN
        [w EXCEPT !.err = r.err, !.aborted = (dia = "postgresql"),
                  !.tx = IF dia = "postgresql" THEN w.db ELSE w.tx]
    ELSE [w EXCEPT !.tx = r.cat, !.db = IF dia = "mysql" THEN r.cat ELSE w.db]

Commit(w, dia) == IF dia = "postgresql" /\ w.err = "" THEN [w EXCEPT !.db = w.tx] ELSE w

\* an exception leaves _renameAndDrop: the connection is dropped
Propagate(w) == [w EXCEPT !.tx = w.db]

\* cur.execute("DROP TABLE IF EXISTS target_old")
swapDropOld(w, target, dia) ==
    LET a == Exec(w, DropTableIfExists(w.tx, OldName(target)), dia)
    IN IF a.err # "" THEN Propagate(a) ELSE a

\* if tableExists(target): rename it to target_old (and its index), commit
swapRenameLive(w, target, dia) ==
    IF w.aborted THEN Propagate([w EXCEPT !.err = "Error"])
    ELSE IF ~tableExists(w.tx, target) THEN w
    ELSE LET a == Exec(w, RenameTable(w.tx, target, OldName(target)), dia)
             b == IF a.err = "" /\ dia = "postgresql"
                  THEN Exec(a, RenameIndex(a.tx, PkIndexName(target),
                                           PkIndexName(OldName(target))), dia)
                  ELSE a
         IN IF b.err # "" THEN Propagate(b) ELSE Commit(b, dia)

\* try: rename source to target (and its index), commit; except: revert = True.
\* fault: the store refuses the rename
swapRenameSource(w, source, target, dia, fault) ==
    LET a == Exec(w, IF fault THEN Fail("Error", w.tx)
                     ELSE RenameTable(w.tx, source, target), dia)
        b == IF a.err = "" /\ dia = "postgresql"
             THEN Exec(a, RenameIndex(a.tx, PkIndexName(source), PkIndexName(target)), dia)
             ELSE a
    IN IF b.err # "" THEN [b EXCEPT !.err = "", !.revert = TRUE] ELSE Commit(b, dia)

\* if revert: if tableExists(target_old): rename it back (and its index), commit.
\* fault: the store refuses the rename
swapRevert(w, target, dia, fault) ==
    IF ~w.revert THEN w
    ELSE IF w.aborted THEN Propagate([w EXCEPT !.err = "Error"])
    ELSE IF ~tableExists(w.tx, OldName(target)) THEN w
    ELSE LET a == Exec(w, IF fault THEN Fail("Error", w.tx)
                          ELSE RenameTable(w.tx, OldName(target), target), dia)
             b == IF a.err = "" /\ dia = "postgresql"
                  THEN Exec(a, RenameIndex(a.tx, PkIndexName(OldName(target)),
                                           PkIndexName(target)), dia)
                  ELSE a
         IN IF b.err # "" THEN Propagate(b) ELSE Commit(b, dia)

\* cur.execute("DROP TABLE IF EXISTS target_old"), commit, close
swapDropOldLast(w, target, dia) ==
    LET a == Exec(w, DropTableIfExists(w.tx, OldName(target)), dia)
    IN IF a.err # "" THEN Propagate(a) ELSE Commit(a, dia)

(***************************************************************************)
(* Actions.                                                                *)
(***************************************************************************)
env == <<feed, dialect, recordsExpected, skipKeyViolators>>

\* Ingester.__init__ (with Parser.__init__): a process starts on the feed.  The
\* first process is the scheduled load; a later one is the operator's recovery
\* after a load raised.
Construct ==
    /\ runs < MaxRuns
    /\ pc = "new" \/ (pc \in {"raised", "raisedOther"} /\ op = "full")
    /\ runs' = runs + 1
    /\ parser' = ParserInit(feed, dialect)
    /\ ing' = [NewIng EXCEPT !.lastTimeCheck = Time(now + 1)]
    /\ statusDict' = updateStatusDict(NewIng)
    /\ now' = now + 1
    /\ pc' = IF parser'.err = "" THEN "idle" ELSE "dead"
    /\ op' = "none"
    /\ loc' = NoLoc
    /\ ret' = NoRet
    /\ hist' = [hist EXCEPT !.calls = 0, !.firstFull = (op = "full"),
                            !.stagingAtAbort = db[tmpTableName],
                            !.lastAtAbort = ing.lastRecordIngested,
                            !.faulted = FALSE, !.read = <<>>, !.notExecuted = {},
                            !.keyViolation = {}]
    /\ UNCHANGED <<env, db, tx, txAborted>>

\* a caller reads one record from a freshly built parser: Parser.nextRecord
CallNextRecord ==
    /\ pc = "idle"
    /\ op = "none"
    /\ ret.kind \in {"unset", "rec"}
    /\ \E r \in {nextRecord(feed, parser)} :
          /\ ret' = [kind |-> r.kind, rec |-> r.rec, err |-> r.err]
          /\ parser' = r.parser
    /\ hist' = [hist EXCEPT !.calls = @ + 1]
    /\ UNCHANGED <<env, ing, statusDict, now, db, tx, txAborted, op, pc, loc, runs>>

\* a backend error reaches the except clause of the operation in progress
RaiseBackend(g) ==
    LET h == onBackendError(op, g, statusDict, now)
    IN /\ ing' = h.ing
       /\ statusDict' = h.statusDict
       /\ now' = now + h.ticks
       /\ pc' = "raised"

\* the operation in progress returns normally; when ingest() made the call it
\* goes on to self.parser.eFile.close() and self.parser.process.poll()
Complete(g) ==
    LET h == onCompleted(op, g, statusDict, now)
    IN /\ ing' = h.ing
       /\ statusDict' = h.statusDict
       /\ now' = now + h.ticks
       /\ pc' = "done"
       /\ parser' = [parser EXCEPT !.closed = @ \/ loc.viaIngest]

\* ingest() on a feed that is not INCREMENTAL: ingestFull up to its try block
StartFull ==
    /\ pc = "idle" /\ op = "none" /\ runs = 1 /\ ret.kind = "unset"
    /\ parser.exportMode # <<"INCREMENTAL">>
    /\ op' = "full"
    /\ ing' = [ing EXCEPT !.startTime = Time(now + 1)]
    /\ now' = now + 1
    /\ loc' = [NoLoc EXCEPT !.tableName = tmpTableName, !.viaIngest = TRUE]
    /\ pc' = "create"
    /\ UNCHANGED <<env, parser, ret, statusDict, db, tx, txAborted, hist, runs>>

\* ingestFullResume(fromRecord) up to its try block
StartResume ==
    /\ pc = "idle" /\ op = "none" /\ ret.kind = "unset"
    /\ \E fromRecord \in 0..MaxRecs :
        /\ ing' = [ing EXCEPT !.lastRecordIngested = fromRecord - 1,
                              !.startTime = Time(now + 1)]
        /\ loc' = [NoLoc EXCEPT !.tableName = tmpTableName, !.resumeNum = fromRecord]
    /\ op' = "resume"
    /\ now' = now + 1
    /\ pc' = "seek"
    /\ hist' = [hist EXCEPT !.stagingAtResume = db[tmpTableName]]
    /\ UNCHANGED <<env, parser, ret, statusDict, db, tx, txAborted, runs>>

\* ingestIncremental(fromRecord) up to its try block
StartIncremental ==
    /\ pc = "idle" /\ op = "none" /\ runs = 1 /\ ret.kind = "unset"
    /\ op' = "incr"
    /\ UNCHANGED <<env, ret, db, tx, txAborted, hist, runs>>
    /\ IF ~tableExists(db, tableName)
       THEN /\ statusDict' = updateStatusDict(ing)
            /\ pc' = "done"
            /\ UNCHANGED <<parser, ing, now, loc>>
       ELSE LET tableColCount == db[tableName].ncols
                fileColCount == Len(parser.columnNames)
            IN IF ~ColumnsFit(tableColCount, fileColCount)
               THEN /\ pc' = "raisedOther"
                    /\ UNCHANGED <<parser, ing, statusDict, now, loc>>
               ELSE /\ parser' = [parser EXCEPT
                                    !.columnNames = Prefix(@, tableColCount)]
                    /\ ing' = [ing EXCEPT !.startTime = Time(now + 1)]
                    /\ now' = now + 1
                    /\ UNCHANGED statusDict
                    /\ \E fromRecord \in 0..MaxRecs :
                        IF dialect = "postgresql" \/ recordsExpected < 500000
                        THEN /\ loc' = [NoLoc EXCEPT !.tableName = tableName,
                                                     !.resumeNum = fromRecord,
                                                     !.isIncremental = TRUE]
                             /\ pc' = "seek"
                        ELSE /\ loc' = [NoLoc EXCEPT !.tableName = incTableName]
                             /\ pc' = "create"

\* _createTable(loc.tableName); fault: the store cannot be reached
CreateTable ==
    /\ pc = "create"
    /\ \E fault \in BOOLEAN :
        LET r == IF fault THEN Fail("Error", db)
                 ELSE createTable(db, loc.tableName, parser, dialect)
        IN /\ db' = r.cat
           /\ tx' = r.cat
           /\ hist' = [hist EXCEPT !.faulted = @ \/ fault]
           /\ IF r.err # "" THEN RaiseBackend(ing)
              ELSE /\ pc' = "seek"
                   /\ UNCHANGED <<ing, statusDict, now>>
    /\ UNCHANGED <<env, parser, ret, txAborted, op, loc, runs>>

\* _populateTable up to its while loop: seekToRecord(resumeNum)
PopulateBegin ==
    /\ pc = "seek"
    /\ LET r == seekToRecord(parser, loc.resumeNum)
       IN /\ parser' = r.parser
          /\ pc' = IF r.err # "" THEN "raisedOther" ELSE "batch"
          /\ loc' = IF r.err # "" THEN loc
                    ELSE [loc EXCEPT !.populating = TRUE,
                                     !.conns = IF dialect = "postgresql" THEN NewPool
                                               ELSE <<>>]
    /\ UNCHANGED <<env, ret, ing, statusDict, now, db, tx, txAborted, op, hist, runs>>

\* the poll loop of a pass stopped at session idx: the poll raises what the store
\* answered to the session's earlier statement, or the session takes the batch b
SubmitBatch(b, idx) ==
    LET cn == loc.conns[idx]
        raises == cn.state = "done" /\ cn.err # ""
        last == b.parser.latestRecordNum
        polled == [loc EXCEPT !.conn_idx = idx, !.conns[idx] = IdleConn]
    IN IF raises /\ cn.err = "Error"
       THEN /\ RaiseBackend(ing)
            /\ loc' = polled
            /\ hist' = [hist EXCEPT !.read = @ \o b.records]
       ELSE /\ ing' = batchIngested(ing, last, now).ing
            /\ loc' = [polled EXCEPT
                         !.batches = @ + 1,
                         !.conns[idx] = IF raises THEN IdleConn
                                        ELSE [state |-> "sent", stmt |-> b.escaped,
                                              last |-> last, err |-> ""]]
            /\ hist' = [hist EXCEPT
                          !.batchIn = b.records, !.batchOut = b.escaped,
                          !.read = @ \o b.records,
                          !.notExecuted = IF raises THEN @ \cup {last} ELSE @,
                          !.keyViolation = IF raises THEN @ \cup {"poll"} ELSE @]
            /\ UNCHANGED <<statusDict, now, pc>>

\* the store runs the statement of a pooled session (each session commits its
\* own statement); fault: the store fails the statement whatever its data
StoreExecutes ==
    /\ pc \in {"batch", "analyze"}
    /\ \E i \in DOMAIN loc.conns, fault \in BOOLEAN :
        /\ loc.conns[i].state = "sent"
        /\ \E x \in {IF fault THEN Fail("Error", db)
                      ELSE StoreRuns(db, loc.tableName, dialect, loc.isIncremental,
                                     skipKeyViolators, parser, loc.conns[i].stmt)} :
            /\ db' = x.cat
            /\ tx' = x.cat
            /\ loc' = [loc EXCEPT !.conns[i] =
                          [@ EXCEPT !.state = "done", !.stmt = <<>>, !.err = x.err]]
            /\ hist' = [hist EXCEPT
                          !.faulted = @ \/ fault,
                          !.notExecuted = IF x.err = "Error"
                                          THEN @ \cup {loc.conns[i].last} ELSE @]
    /\ UNCHANGED <<env, parser, ret, ing, statusDict, now, txAborted, op, pc, runs>>

\* one pass of the while loop of _populateTable; outcome: what the store answers
\* to the batch statement beyond what the data decides
PopulateBatch ==
    /\ pc = "batch"
    /\ \E b \in {populateBatch(feed, parser, db, loc.tableName, dialect,
                               loc.isIncremental, skipKeyViolators, MaxNum)} :
          /\ parser' = b.parser
          /\ \/ /\ b.kind = "other"
                /\ pc' = "raisedOther"
                /\ UNCHANGED <<ing, statusDict, now, db, tx, loc, hist>>
             \/ /\ b.kind = "end"
                /\ pc' = "analyze"
                /\ UNCHANGED <<ing, statusDict, now, db, tx, loc, hist>>
             \/ /\ b.kind = "fatal"
                /\ RaiseBackend(ing)
                /\ hist' = [hist EXCEPT !.read = @ \o b.records,
                                        !.notExecuted = @ \cup {b.parser.latestRecordNum},
                                        !.keyViolation =
                                            IF b.answer = "IntegrityError"
                                            THEN @ \cup {"execute"} ELSE @]
                /\ UNCHANGED <<db, tx, loc>>
             \/ /\ b.kind = "next"
                /\ \E outcome \in {"ok", "warning", "fatal"} :
                    IF outcome = "fatal"
                    THEN /\ RaiseBackend(ing)
                         /\ hist' = [hist EXCEPT
                                       !.faulted = TRUE, !.read = @ \o b.records,
                                       !.notExecuted = @ \cup {b.parser.latestRecordNum}]
                         /\ UNCHANGED <<db, tx, loc>>
                    ELSE /\ db' = b.cat
                         /\ tx' = b.cat
                         /\ ing' = batchIngested(ing, b.parser.latestRecordNum, now).ing
                         /\ loc' = [loc EXCEPT !.batches = @ + 1]
                         /\ hist' = [hist EXCEPT
                                       !.batchIn = b.records, !.batchOut = b.escaped,
                                       !.read = @ \o b.records,
                                       !.keyViolation =
                                           IF b.answer = "IntegrityError"
                                           THEN @ \cup {"execute"} ELSE @]
                         /\ UNCHANGED <<statusDict, now, pc>>
             \/ /\ b.kind = "submit"
                /\ \E i \in DOMAIN loc.conns : loc.conns[i].state # "sent"
                /\ SubmitBatch(b, PollFrom(loc.conns, loc.conn_idx, PoolSize))
                /\ UNCHANGED <<db, tx>>
    /\ UNCHANGED <<env, ret, txAborted, op, runs>>

\* _populateTable after its loop: each pooled session is waited for and closed
\* (whatever its poll raises is passed over), ANALYZE; and what the caller does
\* next
PopulateEnd ==
    /\ pc = "analyze"
    /\ Drained(loc.conns)
    /\ LET r == analyzeTable(db, loc.tableName)
           drained == [loc EXCEPT !.conns = <<>>]
       IN IF r.err # "" THEN /\ RaiseBackend(ing)
                             /\ loc' = drained
                             /\ UNCHANGED parser
          ELSE IF loc.isIncremental
              THEN /\ Complete(ing)
                   /\ loc' = [drained EXCEPT !.populating = FALSE]
          ELSE /\ pc' = IF op = "incr" THEN "merge" ELSE "swapDropOld"
               /\ loc' = [drained EXCEPT !.sourceTable = loc.tableName,
                                         !.populating = FALSE]
               /\ UNCHANGED <<parser, ing, statusDict, now>>
    /\ hist' = [hist EXCEPT !.keyViolation =
                   IF \E i \in DOMAIN loc.conns : loc.conns[i].err = "IntegrityError"
                   THEN @ \cup {"drain"} ELSE @]
    /\ UNCHANGED <<env, ret, db, tx, txAborted, op, runs>>

\* the prune-and-merge statements of ingestIncremental
MergeTables ==
    /\ pc = "merge"
    /\ LET r == mergeTables(db, parser, dialect)
       IN /\ db' = r.cat
          /\ tx' = r.cat
          /\ IF r.err # "" THEN /\ RaiseBackend(ing)
                                /\ UNCHANGED loc
             ELSE /\ pc' = "swapDropOld"
                  /\ loc' = [loc EXCEPT !.sourceTable = unionTableName]
                  /\ UNCHANGED <<ing, statusDict, now>>
    /\ UNCHANGED <<env, parser, ret, txAborted, op, hist, runs>>

\* the cutover connection and the store as _renameAndDrop has them
SwapW == [db |-> db, tx |-> tx, aborted |-> txAborted, revert |-> loc.revert, err |-> ""]

\* a statement group of _renameAndDrop took the store to w
SwapTo(w, nextPc, failed, injected) ==
    /\ db' = w.db
    /\ tx' = w.tx
    /\ txAborted' = (w.aborted /\ w.err = "")
    /\ loc' = [loc EXCEPT !.revert = w.revert, !.renameFailed = @ \/ failed]
    /\ hist' = [hist EXCEPT !.sawNoLive =
                   @ \/ (hist.liveBefore.exists /\ ~w.db[tableName].exists),
                            !.faulted = @ \/ injected]
    /\ IF w.err # "" THEN RaiseBackend(ing)
       ELSE /\ pc' = nextPc
            /\ UNCHANGED <<ing, statusDict, now>>
    /\ UNCHANGED <<env, parser, ret, op, runs>>

\* _renameAndDrop: DROP TABLE IF EXISTS target_old
SwapDropOld ==
    /\ pc = "swapDropOld"
    /\ LET w == swapDropOld([SwapW EXCEPT !.tx = db, !.aborted = FALSE, !.revert = FALSE],
                            tableName, dialect)
       IN /\ db' = w.db
          /\ tx' = w.tx
          /\ txAborted' = FALSE
          /\ loc' = [loc EXCEPT !.revert = FALSE, !.renameFailed = FALSE]
          /\ hist' = [hist EXCEPT !.liveBefore = db[tableName], !.sawNoLive = FALSE]
          /\ pc' = "swapRenameLive"
    /\ UNCHANGED <<env, parser, ret, ing, statusDict, now, op, runs>>

\* _renameAndDrop: the live table steps aside
SwapRenameLive ==
    /\ pc = "swapRenameLive"
    /\ SwapTo(swapRenameLive(SwapW, tableName, dialect), "swapRenameSource", FALSE, FALSE)

\* _renameAndDrop: the staging table takes the live name, or revert is set
SwapRenameSource ==
    /\ pc = "swapRenameSource"
    /\ \E fault \in BOOLEAN :
        LET w == swapRenameSource(SwapW, loc.sourceTable, tableName, dialect, fault)
        IN SwapTo(w, IF w.revert THEN "swapRevert" ELSE "swapDropOldLast", w.revert, fault)

\* _renameAndDrop: the revert branch
SwapRevert ==
    /\ pc = "swapRevert"
    /\ \E fault \in BOOLEAN :
        SwapTo(swapRevert(SwapW, tableName, dialect, fault), "swapDropOldLast", FALSE, fault)

\* _renameAndDrop: the last DROP TABLE IF EXISTS target_old, then the caller's
\* "ingest completed" statements and its return to ingest()
SwapDropOldLast ==
    /\ pc = "swapDropOldLast"
    /\ LET w == swapDropOldLast(SwapW, tableName, dialect)
       IN /\ db' = w.db
          /\ tx' = w.db
          /\ txAborted' = FALSE
          /\ hist' = [hist EXCEPT !.sawNoLive =
                         @ \/ (hist.liveBefore.exists /\ ~w.db[tableName].exists)]
          /\ IF w.err # "" THEN RaiseBackend(ing) /\ UNCHANGED parser
             ELSE Complete(ing)
    /\ UNCHANGED <<env, ret, op, loc, runs>>

(***************************************************************************)
(* The decoding specification: a parser is built on a feed and records are *)
(* read from it one by one.                                                *)
(***************************************************************************)
ParserCols == << <<"a", "_id">>, <<"release", "_date">>, <<"name">> >>
ParserTypes == << <<"INTEGER">>, <<"DATETIME">>, <<"VARCHAR(100)">> >>
ParserPKs == { <<>>, << <<"a", "_id">> >>, << <<"name">>, <<"release", "_date">> >> }

PlainRecs == { << <<"1">>, <<"2", "0", "1", "2">>, <<"x">> >>,
               << <<"2">>, Empty, Empty >> }

Col1Vals == { Empty, <<"7">>, <<"[", "4", "]">>, <<"<", "U", ">">> }
Col2Vals == { Empty, <<" ">>, <<"0", "9", " ", "0", "6">>, <<"9", "9", "-", "0", "1">>,
              <<"a", "b", " ", "c">> }
Col3Vals == { Empty, <<"x">> }
RichRecs == { <<a, b, c>> : a \in {Empty, <<"7">>}, b \in Col2Vals, c \in Col3Vals }
            \cup { <<a, Empty, Empty>> : a \in Col1Vals }
            \cup { << <<"7">> >>, << <<"7">>, Empty, Empty, Empty >> }

ParserFeeds ==
    { Header(ParserCols, pk, ParserTypes, <<"FULL">>, tags, n) \o DataLines(d) \o Trailer :
        pk \in ParserPKs, tags \in SUBSET AllTags, n \in 0..MaxLegal,
        d \in SeqsUpTo(PlainRecs, MaxParseRecs) }
    \cup
    { Header(ParserCols, pk, ParserTypes, <<"FULL">>, AllTags, HeaderLookahead - 3)
        \o DataLines(d) \o Trailer :
        pk \in ParserPKs, d \in SeqsUpTo(RichRecs, MaxParseRecs) }

NoHist ==
    [calls |-> 0, firstFull |-> FALSE, stagingAtAbort |-> NoTable,
     stagingAtResume |-> NoTable, liveBefore |-> NoTable, sawNoLive |-> FALSE,
     batchIn |-> <<>>, batchOut |-> <<>>, db0 |-> EmptyCatalog,
     lastAtAbort |-> -1, faulted |-> FALSE, read |-> <<>>, notExecuted |-> {},
     keyViolation |-> {}]

InitCommon ==
    /\ parser = NoParser
    /\ ret = NoRet
    /\ ing = NewIng
    /\ statusDict = updateStatusDict(NewIng)
    /\ now = 0
    /\ tx = db
    /\ txAborted = FALSE
    /\ op = "none"
    /\ pc = "new"
    /\ loc = NoLoc
    /\ hist = [NoHist EXCEPT !.db0 = db]
    /\ runs = 0

InitParser ==
    /\ feed \in ParserFeeds
    /\ dialect \in {"mysql", "postgresql"}
    /\ recordsExpected = 499999
    /\ skipKeyViolators = FALSE
    /\ db = EmptyCatalog
    /\ InitCommon

NextParser == Construct \/ CallNextRecord

SpecParser == InitParser /\ [][NextParser]_vars

(***************************************************************************)
(* The stream specification: a parser is built on a stream whose records   *)
(* may span lines, hold a comment marker at the start of a later line, or  *)
(* be cut short, and a caller reads rows, skips records and seeks.         *)
(***************************************************************************)
MaxStreamLines == 3
MaxCalls == 3

\* a data line: a whole record, the first line of a longer one, or a line that
\* starts with the comment marker
StreamLineKinds ==
    { Line("", << <<"1">>, <<"1">> >>),
      [Line("", << <<"1">>, <<"1">> >>) EXCEPT !.delim = FALSE],
      Line(commentChar, << <<"1">>, <<"1">> >>) }

\* the header, up to MaxStreamLines data lines, and then nothing or the zero
\* padding of the archive
StreamFeeds ==
    { Header(ParserCols, <<>>, ParserTypes, <<"FULL">>, AllTags, HeaderLookahead - 3)
        \o d \o t :
        d \in SeqsUpTo(StreamLineKinds, MaxStreamLines),
        t \in { <<>>, <<[pfx |-> ZeroFill, fields |-> <<Empty>>, delim |-> FALSE]>> } }

\* a caller's call has returned or raised: what it returned, and its argument
Called(kind, rec, err, n) ==
    /\ ret' = [kind |-> kind, rec |-> rec, err |-> err]
    /\ loc' = [loc EXCEPT !.resumeNum = n]
    /\ hist' = [hist EXCEPT !.calls = @ + 1]
    /\ UNCHANGED <<env, ing, statusDict, now, db, tx, txAborted, op, pc, runs>>

\* Parser.nextRowString(ignoreComments)
CallNextRowString ==
    /\ pc = "idle" /\ op = "none" /\ hist.calls < MaxCalls
    /\ \E ignoreComments \in BOOLEAN :
        \E r \in {nextRowString(feed, parser.pos, ignoreComments)} :
            /\ parser' = [parser EXCEPT !.pos = r.pos]
            /\ Called("row", r.row, "", 0)

\* Parser.advanceToNextRecord()
CallAdvanceToNextRecord ==
    /\ pc = "idle" /\ op = "none" /\ hist.calls < MaxCalls
    /\ parser' = advanceToNextRecord(feed, parser)
    /\ Called("advanced", <<>>, "", 0)

\* Parser.seekToRecord(recordNum)
CallSeekToRecord ==
    /\ pc = "idle" /\ op = "none" /\ hist.calls < MaxCalls
    /\ \E recordNum \in -1..(MaxStreamLines + 1) :
        \E r \in {seekToRecord(parser, recordNum)} :
            /\ parser' = r.parser
            /\ Called("sought", <<>>, r.err, recordNum)

InitStream ==
    /\ feed \in StreamFeeds
    /\ dialect = "mysql"
    /\ recordsExpected = 499999
    /\ skipKeyViolators = FALSE
    /\ db = EmptyCatalog
    /\ InitCommon

NextStream ==
    \/ Construct
    \/ CallNextRowString
    \/ CallAdvanceToNextRecord
    \/ CallSeekToRecord

SpecStream == InitStream /\ [][NextStream]_vars

(***************************************************************************)
(* The progress specification: the passes of the loop of _populateTable on *)
(* a long feed, as far as _checkProgress sees them: each pass has read a   *)
(* number of records and taken a number of seconds.                        *)
(***************************************************************************)
MaxPasses == 4

\* lines 501-507 of a pass that read n records in dt seconds
BatchIngested ==
    /\ pc = "idle" /\ op = "none" /\ loc.batches < MaxPasses
    /\ \E n \in {1, recordGap - 1, recordGap}, dt \in {1, timeGap - 1, timeGap} :
        \E r \in {batchIngested(ing, parser.latestRecordNum + n, now + dt)} :
            /\ parser' = [parser EXCEPT !.latestRecordNum = @ + n]
            /\ now' = now + dt
            /\ ing' = r.ing
            /\ ret' = [kind |-> IF r.value # <<>> THEN "progress" ELSE "quiet",
                       rec |-> r.value, err |-> ""]
    /\ loc' = [loc EXCEPT !.batches = @ + 1]
    /\ UNCHANGED <<env, statusDict, db, tx, txAborted, op, pc, hist, runs>>

InitProgress ==
    /\ feed \in {f \in StreamFeeds : Len(f) = HeaderLookahead + 1}
    /\ dialect \in {"mysql", "postgresql"}
    /\ recordsExpected = 500001
    /\ skipKeyViolators = FALSE
    /\ db = EmptyCatalog
    /\ InitCommon

NextProgress == Construct \/ BatchIngested

SpecProgress == InitProgress /\ [][NextProgress]_vars

(***************************************************************************)
(* The ingest specification: a load of a feed into the store, and the      *)
(* recovery run after a load that raised.                                  *)
(***************************************************************************)
IngestCols == << <<"export", "_date">>, <<"a", "_id">> >>
IngestTypes == << <<"BIGINT">>, <<"INTEGER">> >>
IngestPKs == { <<>>, << <<"a", "_id">> >> }
IngestRecs == { << <<"1">>, <<"1">> >>, << <<"2">>, <<"1">> >>, << <<"1">>, <<"2">> >> }

IngestFeeds ==
    { Header(IngestCols, pk, IngestTypes, <<"FULL">>, AllTags, n) \o DataLines(d) \o Trailer :
        pk \in IngestPKs, n \in {HeaderLookahead - 4, HeaderLookahead - 3},
        d \in SeqsUpTo(IngestRecs, MaxRecs) }

\* the key columns a feed declares, as column indexes
FeedKey(f) == IF f[2].fields = <<Empty>> THEN <<>> ELSE <<2>>

\* the live table before the load: absent, loaded earlier from a feed of the
\* same layout (exported on day 1 or on day 2), or from a feed that had one
\* column less or one column more
LiveTables(f, dia) ==
    { NoTable,
      [exists |-> TRUE, ncols |-> 2, pk |-> FeedKey(f),
       idx |-> IF FeedKey(f) = <<>> THEN "none"
               ELSE IF dia = "postgresql" THEN PkIndexName(tableName) ELSE "PRIMARY",
       rows |-> << << <<"1">>, <<"1">> >> >>],
      [exists |-> TRUE, ncols |-> 2, pk |-> FeedKey(f),
       idx |-> IF FeedKey(f) = <<>> THEN "none"
               ELSE IF dia = "postgresql" THEN PkIndexName(tableName) ELSE "PRIMARY",
       rows |-> << << <<"2">>, <<"1">> >> >>],
      [exists |-> TRUE, ncols |-> 1, pk |-> <<>>, idx |-> "none",
       rows |-> << << <<"1">> >> >>],
      [exists |-> TRUE, ncols |-> 3, pk |-> <<>>, idx |-> "none",
       rows |-> << << <<"1">>, <<"1">>, Null >> >>] }

\* recordsExpected for a small and for a large file; the PostgreSQL path never
\* reads it
FileSizes(dia) == IF dia = "mysql" THEN {499999, 500001} ELSE {499999}

Init ==
    /\ feed \in IngestFeeds
    /\ dialect \in {"mysql", "postgresql"}
    /\ recordsExpected \in FileSizes(dialect)
    /\ skipKeyViolators \in BOOLEAN
    /\ db \in {[EmptyCatalog EXCEPT ![tableName] = t] : t \in LiveTables(feed, dialect)}
    /\ InitCommon

Next ==
    \/ Construct
    \/ StartFull
    \/ StartResume
    \/ StartIncremental
    \/ CreateTable
    \/ PopulateBegin
    \/ PopulateBatch
    \/ StoreExecutes
    \/ PopulateEnd
    \/ MergeTables
    \/ SwapDropOld
    \/ SwapRenameLive
    \/ SwapRenameSource
    \/ SwapRevert
    \/ SwapDropOldLast

Spec == Init /\ [][Next]_vars

(***************************************************************************)
(* The population specification: _populateTable on a feed with more        *)
(* batches than the pool has sessions, on a store that answers every       *)
(* statement handed to it and a process that keeps running.                *)
(***************************************************************************)
LongFeed ==
    Header(IngestCols, <<>>, IngestTypes, <<"FULL">>, AllTags, HeaderLookahead - 3)
    \o DataLines(Repeat(<< <<"1">>, <<"1">> >>, PoolSize * MaxNum + 1))
    \o Trailer

InitPool ==
    /\ feed = LongFeed
    /\ dialect \in {"mysql", "postgresql"}
    /\ recordsExpected = 499999
    /\ skipKeyViolators = FALSE
    /\ db = EmptyCatalog
    /\ InitCommon

\* the store answers a pooled session's statement as its data decide
StoreAnswers == StoreExecutes /\ ~hist'.faulted

NextPool ==
    \/ Construct
    \/ StartFull
    \/ CreateTable
    \/ PopulateBegin
    \/ PopulateBatch
    \/ StoreAnswers
    \/ PopulateEnd

\* a pass of the while loop can run: the poll loop of a pass that has a batch to
\* hand over spins until some session is not busy
PassEnabled ==
    /\ pc = "batch"
    /\ populateBatch(feed, parser, db, loc.tableName, dialect, loc.isIncremental,
                     skipKeyViolators, MaxNum).kind = "submit"
          => \E i \in DOMAIN loc.conns : loc.conns[i].state # "sent"

\* a step that is a pass of the while loop: it reads the stream or leaves the loop
PassStep == pc = "batch" /\ (parser' # parser \/ pc' # pc)

\* the process takes its next step when it has one, and the store answers every
\* statement it was handed.  The weak fairness of PopulateBatch is written out
\* with its enabling condition.
SpecPool ==
    /\ InitPool /\ [][NextPool]_vars
    /\ WF_vars(PopulateBegin)
    /\ ([]<>~PassEnabled \/ []<><<PassStep>>_vars)
    /\ WF_vars(StoreAnswers) /\ WF_vars(PopulateEnd)

(***************************************************************************)
(* The operations end to end, on a store that answers every statement as   *)
(* the data decides (no fault injected): what one uninterrupted call       *)
(* leaves behind.  The statements of the pooled sessions run in the order   *)
(* they were handed over and none is answered before the drain.            *)
(***************************************************************************)
\* _populateTable(name) from parser state ps: the loop to its end, then ANALYZE
RECURSIVE populateTable(_, _, _, _, _, _, _)
populateTable(f, ps, c, name, dia, isIncremental, skip) ==
    LET b == populateBatch(f, ps, c, name, dia, isIncremental, skip, MaxNum)
    IN IF b.kind = "next"
       THEN populateTable(f, b.parser, b.cat, name, dia, isIncremental, skip)
       ELSE IF b.kind = "submit"
       THEN populateTable(f, b.parser,
                          StoreRuns(b.cat, name, dia, isIncremental, skip, ps, b.escaped).cat,
                          name, dia, isIncremental, skip)
       ELSE IF b.kind = "end" THEN analyzeTable(b.cat, name)
       ELSE Fail(b.kind, b.cat)

\* an exception has left _renameAndDrop in w, or the next statement group runs
Unless(w, v) == IF w.err # "" THEN w ELSE v

\* _renameAndDrop(source, target) on catalog c
renameAndDrop(c, source, target, dia) ==
    LET w0 == [db |-> c, tx |-> c, aborted |-> FALSE, revert |-> FALSE, err |-> ""]
        w1 == swapDropOld(w0, target, dia)
        w2 == Unless(w1, swapRenameLive(w1, target, dia))
        w3 == Unless(w2, swapRenameSource(w2, source, target, dia, FALSE))
        w4 == Unless(w3, swapRevert(w3, target, dia, FALSE))
        w5 == Unless(w4, swapDropOldLast(w4, target, dia))
    IN [err |-> w5.err, cat |-> w5.db]

\* Ingester(f).ingestFull(skipKeyViolators=skip) on catalog c
ingestFull(f, dia, c, skip) ==
    LET ps == ParserInit(f, dia)
        t == createTable(c, tmpTableName, ps, dia)
        p == populateTable(f, ps, t.cat, tmpTableName, dia, FALSE, skip)
    IN IF ps.err # "" THEN Fail(ps.err, c)
       ELSE IF t.err # "" THEN t
       ELSE IF p.err # "" THEN p
       ELSE renameAndDrop(p.cat, tmpTableName, tableName, dia)

(***************************************************************************)
(* Properties of the ingester, stated over specification Spec.            *)
(***************************************************************************)
\* the operation in progress has returned or raised
RunEnded == op # "none" /\ pc \in {"done", "raised", "raisedOther"}

\* what one uninterrupted ingestFull of the feed leaves, from the starting store
FullRun == ingestFull(feed, dialect, hist.db0, skipKeyViolators)

\* the records a run read, from the lastRecordIngested it ended with
RecordsRead(last) == IF last < 0 THEN 0 ELSE last

\* a full ingest was interrupted after the records before index k and this
\* process was then asked to resume from k; no fault is injected into the resume
ResumedAtAbortPoint ==
    /\ op = "resume"
    /\ hist.firstFull
    /\ hist.stagingAtResume.exists
    /\ loc.resumeNum = RecordsRead(hist.lastAtAbort)
    /\ ~hist.faulted

\* C1: a full ingest that wrote the records before index k and was interrupted,
\* followed by ingestFullResume(fromRecord=k), leaves the live table with the same
\* set of rows as one uninterrupted ingestFull of the same feed from the same
\* starting store.
C1_ResumeEqualsFull ==
    (RunEnded /\ ResumedAtAbortPoint /\ FullRun.err = "") =>
        /\ db[tableName].exists
        /\ Range(db[tableName].rows) = Range(FullRun.cat[tableName].rows)

\* C2: when the live table existed before _renameAndDrop, a swap whose
\* staging-to-live rename succeeds passes through no state in which an outside
\* reader finds nothing under the live name.
C2_LiveNameAlwaysBound ==
    (pc = "done" /\ ~hist.faulted /\ hist.liveBefore.exists /\ ~loc.renameFailed)
        => ~hist.sawNoLive

\* C3: if the rename of the staging table to the live name fails, then when
\* _renameAndDrop finishes the live name holds the original live table with
\* exactly its original rows.
C3_FailedRenameRestoresLive ==
    (RunEnded /\ loc.renameFailed /\ hist.liveBefore.exists) =>
        /\ db[tableName].exists
        /\ db[tableName].rows = hist.liveBefore.rows

\* C4: if the rename of the staging table to the live name fails during the
\* cutover of a full or prune-merge incremental ingest, the failure is raised to
\* the caller and the run ends Aborted (didAbort true, abortTime set, endTime not
\* set); it never ends Completed.
C4_FailedCutoverAborts ==
    (RunEnded /\ op \in {"full", "incr"} /\ loc.renameFailed) =>
        /\ pc = "raised"
        /\ ing.didAbort
        /\ ing.abortTime # NoTime
        /\ ing.endTime = NoTime

Completed == pc = "done" /\ ing.endTime # NoTime /\ ~ing.didAbort
Aborted == pc = "raised" /\ ing.abortTime # NoTime /\ ing.didAbort

\* C5: a run that has set startTime and returned or raised a backend error is
\* Completed (endTime set, didAbort false) or Aborted (abortTime set, didAbort
\* true); a run that raised a backend error has didAbort true and abortTime set.
C5_EndsCompletedOrAborted ==
    (RunEnded /\ pc # "raisedOther" /\ ing.startTime # NoTime) =>
        /\ Completed \/ Aborted
        /\ pc = "raised" => (ing.didAbort /\ ing.abortTime # NoTime)

\* C6: during and after a run (after every batch, after completion, after an
\* abort, after ingestFullResume) the status dictionary's lastRecordIngested,
\* startTime, endTime, abortTime and didAbort equal the ingester's fields.
C6_StatusDictCurrent ==
    (op # "none" /\ (RunEnded \/ (pc = "batch" /\ loc.batches > 0))) =>
        statusDict = updateStatusDict(ing)

\* the positions of batch whose row has the key of the row at position i
SameKey(batch, i, pk) == {j \in 1..Len(batch) : KeyOf(batch[j], pk) = KeyOf(batch[i], pk)}

\* C7: for a batch passed to _escapeRecords in which two or more rows share a
\* primary-key tuple, the output has exactly one row for that key and it is the
\* row that appears last in the batch.
C7_LastDuplicateKept ==
    \A i \in 1..Len(hist.batchIn) :
        LET pk == parser.primaryKeyIndexes
            dup == SameKey(hist.batchIn, i, pk)
            last == hist.batchIn[CHOOSE j \in dup : \A k \in dup : k <= j]
            out == {j \in 1..Len(hist.batchOut) :
                       KeyOf(hist.batchOut[j], pk) = KeyOf(escapeRecords(<<last>>, pk).val[1], pk)}
        IN (pk # <<>> /\ Cardinality(dup) >= 2) =>
              /\ Cardinality(out) = 1
              /\ \A j \in out : hist.batchOut[j] = escapeRecords(<<last>>, pk).val[1]

(***************************************************************************)
(* Properties of the parser, stated over SpecParser, whose feeds have one *)
(* line per row).                                                          *)
(***************************************************************************)
\* the rows the constructor scans for tagged declarations
HeaderWindow(f) == SubSeq(f, 2, Min(Len(f), 1 + HeaderLookahead))

LacksTag(f, tagStart) == \A i \in 1..Len(HeaderWindow(f)) : HeaderWindow(f)[i].pfx # tagStart

\* position of the first data record of the feed (past the end when it has none)
FirstDataPos(f) ==
    IF \E p \in 1..Len(f) : f[p].pfx = ""
    THEN CHOOSE p \in 1..Len(f) : f[p].pfx = "" /\ \A q \in 1..(p - 1) : f[q].pfx # ""
    ELSE Len(f) + 1

Constructed == runs >= 1 /\ pc \in {"idle", "dead"} /\ op = "none"

\* C8: constructing a Parser on a feed whose header lookahead lacks one of the
\* three tagged declarations raises SubstringNotFoundException; construction never
\* succeeds with that tag's value left at its default.
C8_MissingTagRaises ==
    (Constructed /\ hist.calls = 0
       /\ \E t \in {primStart, dtStart, exStart} : LacksTag(feed, t))
    => parser.err = "SubstringNotFoundException"

\* the feed carries the three tagged declarations ahead of its first data record
DeclaresAll(f) ==
    \A t \in {primStart, dtStart, exStart} :
        \E p \in 2..(FirstDataPos(f) - 1) : f[p].pfx = t

\* C9: after construction the stream is at the first data record (header
\* extraction consumes no data record), and the first nextRecord() call returns
\* the feed's first data record.
C9_StartsAtFirstRecord ==
    (Constructed /\ pc = "idle" /\ DeclaresAll(feed)) =>
        /\ hist.calls = 0 => parser.pos <= FirstDataPos(feed)
        /\ hist.calls = 1 =>
             ret.rec = nextRecord(feed, [parser EXCEPT !.pos = FirstDataPos(feed)]).rec

\* the raw fields of the record the last nextRecord() call returned
LastRaw == feed[parser.pos - 1].fields

\* C10: in the record nextRecord returns, a field that is empty in the raw record
\* is null when its column is not part of the primary key and the empty string
\* when it is, for every column index within the declared columns.
C10_NullPolicy ==
    (Constructed /\ ret.kind = "rec") =>
        \A i \in 1..Min(Len(LastRaw), Len(parser.columnNames)) :
            LastRaw[i] = Empty =>
                ret.rec[i] = (IF i \in Range(parser.primaryKeyIndexes) THEN Empty ELSE Null)

\* C10's case: a returned record with an empty key field and an empty non-key field
C10_Witness ==
    /\ Constructed
    /\ ret.kind = "rec"
    /\ \E i, j \in 1..Min(Len(LastRaw), Len(parser.columnNames)) :
          /\ LastRaw[i] = Empty /\ i \in Range(parser.primaryKeyIndexes)
          /\ LastRaw[j] = Empty /\ j \notin Range(parser.primaryKeyIndexes)

(***************************************************************************)
(* Properties of the incremental ingest, stated over specification Spec.   *)
(***************************************************************************)
\* the live table the first process found, and the feed's declared column count
StartingLive == hist.db0[tableName]
FileColCount == Len(feed[1].fields)

\* C11: an incremental ingest of a feed that declares more columns than the live
\* table has completes without error, and every row of the live table has the
\* live table's column count, whatever the types of the dropped trailing columns.
C11_ExtraColumnsDropped ==
    (RunEnded /\ op = "incr" /\ loc.resumeNum = 0 /\ ~hist.faulted
       /\ StartingLive.exists /\ StartingLive.ncols < FileColCount) =>
        /\ pc = "done"
        /\ \A i \in 1..Len(db[tableName].rows) :
               Len(db[tableName].rows[i]) = StartingLive.ncols

\* C12: an incremental ingest of a feed that declares fewer columns than the live
\* table has is rejected before a row is written and before a table is created,
\* renamed or dropped.
C12_FewerColumnsRejected ==
    (op = "incr" /\ StartingLive.exists /\ FileColCount < StartingLive.ncols) =>
        /\ pc = "raisedOther"
        /\ db = hist.db0
        /\ parser.latestRecordNum = 0

\* C12's case: the run on a feed with fewer columns has been rejected
C12_Witness ==
    /\ op = "incr" /\ pc = "raisedOther"
    /\ StartingLive.exists /\ FileColCount < StartingLive.ncols

InPlaceDone ==
    /\ pc = "done" /\ op = "incr" /\ loc.isIncremental /\ loc.resumeNum = 0
    /\ ~hist.faulted

\* C14: after the in-place incremental path, on either dialect, the live table
\* holds the feed row's values for every feed row (one that replaces a live row
\* of the same key as well as one with a new key), and no key has two rows.
\* Stated for the feed rows whose key no other feed row shares.
C14_InPlaceUpserts ==
    (InPlaceDone /\ parser.primaryKeyIndexes # <<>>) =>
        LET pk == parser.primaryKeyIndexes
            rows == db[tableName].rows
        IN /\ \A i \in 1..Len(hist.read) :
                  Cardinality(SameKey(hist.read, i, pk)) = 1 =>
                      \E j \in 1..Len(rows) : rows[j] = hist.read[i]
           /\ ~HasDupKeys(rows, pk)

\* C15: the union table built by the prune-and-merge path holds at most one row
\* per primary-key tuple (the live table and the _inc table each hold at most one).
C15_UnionHasNoDuplicates ==
    (db[unionTableName].exists /\ parser.primaryKeyIndexes # <<>>) =>
        ~HasDupKeys(db[unionTableName].rows, parser.primaryKeyIndexes)

\* this step takes the table under name a away without moving it to name b
DroppedNotMovedTo(a, b) ==
    /\ db[a].exists
    /\ ~db'[a].exists
    /\ ~(db'[b].exists /\ db'[b].rows = db[a].rows)

\* C16: no step drops the table that holds the live name, and the previous live
\* table (under the _old name) is dropped only once the staging table has taken
\* the live name.
C16_LiveNeverDropped ==
    [][/\ ~DroppedNotMovedTo(tableName, OldName(tableName))
       /\ DroppedNotMovedTo(OldName(tableName), tableName) =>
             (db'[tableName].exists /\ ~loc'.renameFailed)]_vars

\* C17: when a run aborts on a backend error during population, every batch that
\* ends at a record number up to lastRecordIngested was executed by the store
\* without a fatal error.
C17_SafeResumePoint ==
    (pc = "raised" /\ loc.populating) =>
        \A n \in hist.notExecuted : n > ing.lastRecordIngested

\* C18: a key violation raised for a batch (when the statement is executed, at a
\* later poll or at the drain) does not abort the run: with no fault injected,
\* population goes on to its end with didAbort false, the in-place path ends
\* Completed, and a run that returns is Completed.
C18_KeyViolationNeverAborts ==
    (hist.keyViolation # {} /\ ~hist.faulted) =>
        /\ (loc.populating \/ loc.isIncremental) =>
              (pc \in {"batch", "analyze", "done"} /\ ~ing.didAbort)
        /\ pc = "done" => (ing.endTime # NoTime /\ ~ing.didAbort)

\* C18's case: a run has ended after a key violation surfaced at the drain
C18_Witness == pc = "done" /\ "drain" \in hist.keyViolation /\ ~hist.faulted

\* C19: when ingest() exits, by return or by raise, the decompression stream has
\* been closed and the process polled.
C19_StreamClosedOnExit == (RunEnded /\ loc.viaIngest) => parser.closed

\* C20: lastRecordIngested is -1 from construction until the first batch pass of
\* a fresh run has handed its statement over, and within one run it never
\* decreases.
C20_LastRecordMonotonic ==
    /\ []((op \in {"none", "full", "incr"} /\ loc.batches = 0)
             => ing.lastRecordIngested = -1)
    /\ [][(op' = op /\ op # "none")
             => ing'.lastRecordIngested >= ing.lastRecordIngested]_vars

\* C20's case: a run has completed its second batch pass
C20_Witness == loc.batches >= 2 /\ ing.lastRecordIngested > MaxNum

(***************************************************************************)
(* Properties of the stream operations, stated over SpecStream.            *)
(***************************************************************************)
\* the step is a return of the call named kind
Returned(kind) == hist'.calls = hist.calls + 1 /\ ret'.kind = kind

\* C21: nextRowString returns a row that ends with the record delimiter, or
\* nothing: lines read up to the end of the stream with no delimiter are not
\* returned.
C21_RowEndsWithDelimiter ==
    (ret.kind = "row" /\ ret.rec # NoRow) => ret.rec[Len(ret.rec)].delim

\* a row that nextRowString returned whole
Delimited(row) == row # NoRow /\ row[Len(row)].delim

\* C22: advanceToNextRecord consumes the lines nextRowString(ignoreComments=True)
\* would consume, and counts one record exactly when nextRowString would have
\* returned a delimited row.
C22_AdvanceFollowsNextRowString ==
    [][Returned("advanced") =>
        LET r == nextRowString(feed, parser.pos, TRUE)
        IN /\ parser'.pos = r.pos
           /\ parser'.latestRecordNum =
                  parser.latestRecordNum + (IF Delimited(r.row) THEN 1 ELSE 0)]_vars

RECURSIVE RowsFrom(_, _, _)
RowsFrom(f, p, n) ==
    LET r == nextRowString(f, p, TRUE)
    IN IF n = 0 \/ ~Delimited(r.row) THEN [pos |-> IF n = 0 THEN p ELSE r.pos, left |-> n]
       ELSE RowsFrom(f, r.pos, n - 1)

\* C24: seekToRecord(n) with n > 0 leaves the stream at the start of data record
\* n, counted from the framing block, with latestRecordNum = n, or at the end of
\* the stream with latestRecordNum = N when n > N.
C24_SeekReachesRecord ==
    (ret.kind = "sought" /\ loc.resumeNum > 0) =>
        LET at == RowsFrom(feed, 1, loc.resumeNum)
        IN /\ ret.err = ""
           /\ parser.pos = at.pos
           /\ parser.latestRecordNum = loc.resumeNum - at.left

(***************************************************************************)
(* Further properties of the ingester, stated over specification Spec.     *)
(***************************************************************************)
\* C25: in every state of a built parser, the trimming of the column names by
\* ingestIncremental included, there are as many data types as column names and
\* every primary-key column is one of the column names.
C25_HeaderListsAgree ==
    (parser.err = "") =>
        /\ Len(parser.dataTypes) = Len(parser.columnNames)
        /\ Range(parser.primaryKey) \subseteq Range(parser.columnNames)

\* the sessions of the pool whose statement is with the store
InFlight(conns) == {i \in DOMAIN conns : conns[i].state = "sent"}

\* C28: on the pooled backend a batch statement goes only to a session whose
\* poll reported it idle, so that no session has two statements in flight, and
\* the pool holds 8 sessions for the whole population.
C28_OneStatementPerSession ==
    /\ []((dialect = "postgresql" /\ pc \in {"batch", "analyze"}) => Len(loc.conns) = 8)
    /\ [][\A i \in DOMAIN loc.conns \cap DOMAIN loc'.conns :
            (loc'.conns[i] # loc.conns[i] /\ loc'.conns[i].state = "sent") =>
                (loc.conns[i].state # "sent" /\ loc.conns[i].err = "")]_vars

\* two statements in flight, on two sessions
C28_Witness == pc = "batch" /\ Cardinality(InFlight(loc.conns)) = 2

\* the steps of the run that follow a normal return of _populateTable
AfterPopulate ==
    pc \in {"merge", "swapDropOld", "swapRenameLive", "swapRenameSource", "swapRevert",
            "swapDropOldLast", "done"}

\* C29: on the pooled backend every session has been waited for and closed when
\* _populateTable returns: no session has a statement in flight when ANALYZE is
\* issued, nor when the staging table is renamed.
C29_DrainedBeforeCutover ==
    /\ []((op # "none" /\ AfterPopulate) => loc.conns = <<>>)
    /\ [][(pc = "analyze" /\ pc' # "analyze") =>
            (InFlight(loc.conns) = {} /\ loc'.conns = <<>>)]_vars

\* the cutover of a load whose batches went through the pool
C29_Witness ==
    dialect = "postgresql" /\ pc = "swapRenameSource" /\ loc.batches = 2

\* C30: with an empty primary key _escapeRecords drops no row: the output has
\* one escaped row for each row of the batch, in the same order.
C30_NoKeyKeepsEveryRow ==
    (parser.primaryKey = <<>> /\ hist.batchIn # <<>>) =>
        /\ Len(hist.batchOut) = Len(hist.batchIn)
        /\ \A i \in 1..Len(hist.batchIn) :
              hist.batchOut[i] = [j \in 1..Len(hist.batchIn[i]) |-> Literal(hist.batchIn[i][j])]

\* the pass a step ends handed its statement to the store: to a pooled session,
\* or to the one session, which ran it
Submitted ==
    IF dialect = "postgresql"
    THEN \E i \in DOMAIN loc'.conns :
            /\ loc'.conns[i] # loc.conns[i]
            /\ loc'.conns[i].state = "sent"
            /\ loc'.conns[i].stmt = hist'.batchOut
    ELSE db' = StoreRuns(db, loc.tableName, dialect, loc.isIncremental,
                         skipKeyViolators, parser, hist'.batchOut).cat

\* C31: every batch the parser returns is submitted to the store before
\* lastRecordIngested moves past it, unless the run aborts; an integrity error
\* of an earlier statement met while polling for an idle session does not make
\* the pass skip its batch.
C31_EveryBatchSubmitted ==
    [][(op # "none" /\ loc'.batches = loc.batches + 1) => Submitted]_vars

Consumed == {i \in parser.pos..(parser'.pos - 1) : feed[i].pfx = ""}

\* the record on line i reaches the numeric columns with a field that has no
\* digit, point or minus sign in it
Malformed(i) ==
    LET d == DateLoop([err |-> "",
                       rec |-> NullEmpty(Prefix(feed[i].fields, Len(parser.columnNames)),
                                         parser.primaryKeyIndexes)],
                      parser.dateColumns, 1)
        cols == parser.numberColumns
    IN /\ d.err = ""
       /\ \E k \in 1..Len(cols) :
            /\ \A h \in 1..k : cols[h] <= Len(d.rec)
            /\ \A h \in 1..(k - 1) :
                  ~Truthy(d.rec[cols[h]]) \/ nonNumberSub(d.rec[cols[h]]) # Empty
            /\ Truthy(d.rec[cols[k]])
            /\ d.rec[cols[k]][1] \notin Digits
            /\ nonNumberSub(d.rec[cols[k]]) = Empty

\* C26: a record with a numeric field that is empty once its non-numeric
\* characters are stripped is not returned and raises nothing: nextRecord
\* returns the next record that decodes (or None at the end of the stream), and
\* latestRecordNum counts every data record read, the discarded ones included.
C26_MalformedNumberSkipped ==
    [][(hist'.calls = hist.calls + 1 /\ \E i \in Consumed : Malformed(i)) =>
        LET last == CHOOSE i \in Consumed : \A j \in Consumed : j <= i
        IN /\ parser'.latestRecordNum = parser.latestRecordNum + Cardinality(Consumed)
           /\ ret'.kind = "rec" =>
                 /\ ~Malformed(last)
                 /\ ret'.rec = DecodeRow(<<feed[last]>>, parser).rec
           /\ ret'.kind = "none" => \A i \in Consumed : Malformed(i)
           /\ ret'.kind = "error" =>
                 /\ ~Malformed(last)
                 /\ ret'.err = DecodeRow(<<feed[last]>>, parser).err]_vars

\* the first call passed over one record and returned the one after it
C26_Witness == hist.calls = 1 /\ ret.kind = "rec" /\ parser.latestRecordNum = 2

(***************************************************************************)
(* Properties of the progress report, stated over SpecProgress.            *)
(***************************************************************************)
\* the pass a step ends is due a report: 5,000 records and 120 seconds since the
\* markers were set
Due ==
    /\ ing'.lastRecordIngested - ing.lastRecordCheck >= 5000
    /\ now' - ing.lastTimeCheck[1] >= 120

\* C27: _checkProgress returns a progress value exactly when at least 5,000
\* records were ingested and at least 120 seconds have passed since the last
\* one; it sets the record marker and the time marker exactly then and leaves
\* both alone otherwise.
C27_ProgressWhenBothGaps ==
    [][loc'.batches = loc.batches + 1 =>
        /\ (ret'.kind = "progress") <=> Due
        /\ Due => /\ ret'.rec = <<ing'.lastRecordIngested>>
                  /\ ing'.lastRecordCheck = ing'.lastRecordIngested
                  /\ ing'.lastTimeCheck = Time(now')
        /\ ~Due => /\ ing'.lastRecordCheck = ing.lastRecordCheck
                   /\ ing'.lastTimeCheck = ing.lastTimeCheck]_vars

\* a second report
C27_Witness == ret.kind = "progress" /\ ing.lastRecordCheck >= 10000

(***************************************************************************)
(* Termination of the population, stated over SpecPool.                    *)
(***************************************************************************)
\* C33: on a finite feed and a store that completes every statement in flight,
\* _populateTable terminates: every pass finds an idle session, the loop ends
\* at the end of the stream and the drain ends after the 8 sessions.
C33_PopulateTerminates ==
    (pc \in {"seek", "batch", "analyze"}) ~> (pc \notin {"seek", "batch", "analyze"})

\* a pass has to wait: every session of the pool has a statement in flight
C33_Witness ==
    pc = "batch" /\ Cardinality({i \in DOMAIN loc.conns : loc.conns[i].state = "sent"}) = 8

====
